---- MODULE Spec2Model ----
(***************************************************************************)
(* GraphVisualizer (src/src/visualization.ts): the force-directed graph    *)
(* view of the CV tree.  The state is the node/link collections, the       *)
(* children of the main <g> group, the pattern definitions, the tooltips   *)
(* and their hide timers, the d3 simulation (positions, pins, alpha), the  *)
(* drag gestures, the viewport, the Config and the resize debounce timer.  *)
(* Numbers that the program keeps as fractions are kept scaled: relSize    *)
(* and relDistance in thousandths, Config in thousandths of a pixel, alpha *)
(* in tenths, time in milliseconds.                                        *)
(***************************************************************************)
EXTENDS Integers, Sequences, FiniteSets, Bags, TLC

\* ---------------------------------------------------------------- bounds
MaxNodes == 3       \* nodes a behaviour may add (SpecTip, SpecScene)
MaxLinks == 1       \* links a behaviour may add (SpecTip, SpecPin, SpecResize)
SceneLinks == 2     \* links a behaviour may add (SpecScene)
PinNodes == 1       \* nodes a behaviour may add (SpecPin)
ResizeNodes == 1    \* nodes a behaviour may add (SpecResize)
MaxCoord == 1       \* coordinates are 0..MaxCoord
MaxSize == 1        \* viewport width and height are 0..MaxSize
MaxPointers == 2    \* pointers (touches) that can drag at the same time
TimeStep == 400     \* longest span of time one AdvanceTime step lets pass
AlphaStep == 3      \* tenths by which one tick moves alpha to its target
ZoomNodes == 2      \* nodes a behaviour may add (SpecZoom)
DragNodes == 2      \* nodes a behaviour may add (SpecDrag)
FrameNodes == 2     \* nodes a behaviour may add (SpecFrame)
MaxItems == 4       \* items of the CV tree, the root included (SpecData)
MaxOverride == 1    \* the explicit relSize / relDistance, in millionths
ZoomFactor == 4     \* factor by which one zoom gesture asks to scale
MaxPan == 1         \* the translation stays within -MaxPan..MaxPan
MaxClicks == 1      \* background clicks of a behaviour
BoundSize == 3      \* viewport sizes and positions of SpecBoundary are 0..BoundSize
MaxVelocity == 10000000 \* largest velocity the boundary force is applied to (1e-8 px)

\* ------------------------------------------------------ program constants
HideDelay == 800        \* setTimeout(hideTask, 800)
ResizeDelay == 500      \* setTimeout(..., 500)
LinkDistanceFactor == 300
CircleRadiusFactor == 80
ChargeFactor == 60
CollideBuffer == 10
AlphaStart == 10        \* d3.forceSimulation starts with alpha 1
AlphaReheat == 3        \* simulation.alpha(0.3)
AlphaDrag == 3          \* simulation.alphaTarget(0.3)
AlphaResize == 10       \* simulation.alpha(1)
ScaleMin == 10          \* scaleExtent([0.1, 4]), in hundredths
ScaleMax == 400
BoundaryStrength == 3    \* strength: 0.3, in tenths

Null == 0 - 1           \* undefined / null of a coordinate, a size, a timer
NodeIds == 1 .. MaxNodes
Coord == 0 .. MaxCoord
Sizes == 0 .. MaxSize
Pointers == 1 .. MaxPointers

VARIABLES
    nodes,              \* this.nodes: sequence of Node
    links,              \* this.links: sequence of Link (source id, target id)
    children,           \* children of this.mainGroup, in document order
    defs,               \* <defs><pattern> elements appended to the svg
    tipVisible,         \* per Tooltip created: is it shown
    tipData,            \* per Tooltip created: the node id of its data (0: none)
    showTimeout,        \* per update() closure: the pending timer the handle names
    leaked,             \* pending timers whose handle was overwritten
    hideTask,           \* this.hideTask: 0 is the empty task, k hides tooltip k
    ptr,                \* where the mouse pointer is
    x, y,               \* node.x, node.y by node id
    fx, fy,             \* node.fx, node.fy by node id
    alpha, alphaTarget, \* the simulation's alpha and alpha target, in tenths
    running,            \* the simulation's timer is running
    gestures,           \* per pointer: the node it drags (0: none)
    width, height,      \* svgElement.clientWidth / clientHeight
    config,             \* this.config, in thousandths
    force,              \* what the registered forces captured
    lastResizeTimeout,  \* the pending timer lastResizeTimeout names
    thrown,             \* the last 'tick' callback ended in assert.fail()
    transform,          \* the zoom transform set on this.mainGroup (k in hundredths)
    clicks,             \* clicks on the background the page has handled
    bnode,              \* the node the boundary force function is run on
    tree,               \* data.ts: the Tree objects, the root first
    failed              \* data.ts: the last addItem call ended in assert.fail()

vars == <<nodes, links, children, defs, tipVisible, tipData, showTimeout, leaked,
          hideTask, ptr, x, y, fx, fy, alpha, alphaTarget, running, gestures,
          width, height, config, force, lastResizeTimeout,
          thrown, transform, clicks, bnode, tree, failed>>

tipVars == <<tipVisible, tipData, showTimeout, leaked, hideTask, ptr>>
sceneVars == <<nodes, links, children, defs>>
simVars == <<x, y, fx, fy, alpha, alphaTarget, running, gestures, thrown>>
sizeVars == <<width, height, config, force, lastResizeTimeout>>
viewVars == <<transform, clicks>>
dataVars == <<tree, failed>>

\* ------------------------------------------------------------- data.ts
\* relSize and relDistance are in millionths, a grid that stands for the
\* doubles: RelUnit is 1
RelUnit == 1000000
ShrinkPercent == 65      \* relSize * 0.65
DistancePercent == 60    \* relDistance * 0.6
ShrinkDepth == 2         \* parents of this depth or deeper do not shrink

\* the root of the tree; picture and description are left out
rootItem == [depth |-> 0, relSize |-> RelUnit, relDistance |-> RelUnit]

\* ------------------------------------------------------------- helpers
Min(a, b) == IF a <= b THEN a ELSE b


\* ------------------------------------------------------------- inputs
\* A Node as the caller builds it from the CV tree: the root has no
\* description and relSize = relDistance = 1, a child has 0.65 and 0.6.
Node(id) ==
    [id |-> id,
     description |-> IF id = 1 THEN 0 ELSE 1,
     relSize |-> IF id = 1 THEN 1000 ELSE 650,
     relDistance |-> IF id = 1 THEN 1000 ELSE 600]

Link(s, t) == [source |-> s, target |-> t]

\* ------------------------------------------------- d3 selection (DOM)
\* An element of the main group: cls is its class, d its bound datum (a
\* node id or a Link), k the update() closure that created it (its drag
\* behaviour, tooltip and timer handle), r the radius of its circles, t
\* the attributes the tick callback writes.
NodeElement(id, k, r) == [cls |-> "node", d |-> id, k |-> k, r |-> r, t |-> <<>>]
LineElementNoClass(l) == [cls |-> "line", d |-> l, k |-> 0, r |-> 0, t |-> <<>>]

LineElement(l) == [cls |-> "link", d |-> l, k |-> 0, r |-> 0, t |-> <<>>]

\* key functions of the two data joins
NodeKey(id) == <<id>>
LinkKey(l) == <<l.source, l.target>>
KeyOf(cls, d) == IF cls = "node" THEN NodeKey(d) ELSE LinkKey(d)

\* selectAll('.cls'): the indices of the children of that class, in order
SelectAll(ch, cls) == {i \in DOMAIN ch : ch[i].cls = cls}

\* bindKey: the element datum j of data is joined to (0: datum j enters).
\* A datum joins the first element of its key; a later datum of the same
\* key enters; elements no datum joins, duplicates included, exit.
MatchOf(ch, cls, data, j) ==
    LET kv == KeyOf(cls, data[j])
        els == {i \in SelectAll(ch, cls) : KeyOf(cls, ch[i].d) = kv}
    IN  IF \E j2 \in 1 .. (j - 1) : KeyOf(cls, data[j2]) = kv THEN 0
        ELSE IF els = {} THEN 0
        ELSE CHOOSE i \in els : \A i2 \in els : i <= i2

Entering(ch, cls, data) ==
    {j \in DOMAIN data : MatchOf(ch, cls, data, j) = 0}

Exiting(ch, cls, data) ==
    SelectAll(ch, cls) \ {MatchOf(ch, cls, data, j) : j \in DOMAIN data}

\* EnterNode._next: the element of the next joined datum after datum j
NextOf(ch, cls, data, j) ==
    LET later == {j2 \in DOMAIN data : j2 > j /\ MatchOf(ch, cls, data, j2) # 0}
    IN  IF later = {} THEN 0
        ELSE MatchOf(ch, cls, data, CHOOSE j2 \in later : \A j3 \in later : j2 <= j3)

\* Children are handled as tags while they move: <<0, i>> is the child at
\* index i before the join, <<1, j>> the element created for datum j.
RECURSIVE EnterBefore(_, _, _, _, _)
\* the tags of the entering data whose _next is child c, in data order
EnterBefore(ch, cls, data, c, j) ==
    IF j > Len(data) THEN <<>>
    ELSE (IF MatchOf(ch, cls, data, j) = 0 /\ NextOf(ch, cls, data, j) = c
          THEN <<(<<1, j>>)>> ELSE <<>>)
         \o EnterBefore(ch, cls, data, c, j + 1)

RECURSIVE AppendEntered(_, _, _, _)
\* enter.append(...): each entering element goes before its _next, or last
AppendEntered(ch, cls, data, c) ==
    IF c > Len(ch) THEN EnterBefore(ch, cls, data, 0, 1)
    ELSE EnterBefore(ch, cls, data, c, 1) \o <<(<<0, c>>)>>
         \o AppendEntered(ch, cls, data, c + 1)

\* exit.remove()
RemoveExited(tags, exit) ==
    SelectSeq(tags, LAMBDA tg : ~(tg[1] = 0 /\ tg[2] \in exit))

Pos(tags, tg) == CHOOSE i \in DOMAIN tags : tags[i] = tg

\* parent.insertBefore(node, next)
InsertBefore(tags, node, next) ==
    LET without == SelectSeq(tags, LAMBDA tg : tg # node)
        at == Pos(without, next)
    IN  SubSeq(without, 1, at - 1) \o <<node>> \o SubSeq(without, at, Len(without))

RECURSIVE Order(_, _, _)
\* selection.order(): from the last element of the selection backwards,
\* an element that does not precede its successor is put right before it
Order(tags, sel, i) ==
    IF i < 1 THEN tags
    ELSE IF Pos(tags, sel[i]) < Pos(tags, sel[i + 1])
         THEN Order(tags, sel, i - 1)
         ELSE Order(InsertBefore(tags, sel[i], sel[i + 1]), sel, i - 1)

\* enter.merge(update): per datum its joined or its created element
Merged(ch, cls, data) ==
    [j \in DOMAIN data |->
        IF MatchOf(ch, cls, data, j) = 0 THEN <<1, j>>
        ELSE <<0, MatchOf(ch, cls, data, j)>>]

\* the datum an element kept before the join is bound to after it
Rebound(ch, cls, data, i) ==
    LET js == {j \in DOMAIN data : MatchOf(ch, cls, data, j) = i}
    IN  IF js = {} THEN ch[i] ELSE [ch[i] EXCEPT !.d = data[CHOOSE j \in js : TRUE]]

\* selection.data(data, key).join(enter, update, exit): the children after
\* the join, new[j] being the element the enter function creates for datum j
Join(ch, cls, data, new) ==
    LET entered == AppendEntered(ch, cls, data, 1)
        kept == RemoveExited(entered, Exiting(ch, cls, data))
        ordered == Order(kept, Merged(ch, cls, data), Len(data) - 1)
    IN  [p \in DOMAIN ordered |->
            IF ordered[p][1] = 1 THEN new[ordered[p][2]]
            ELSE Rebound(ch, cls, data, ordered[p][2])]

\* elements a join creates and removes
Created(ch, cls, data) == Cardinality(Entering(ch, cls, data))
Removed(ch, cls, data) == Cardinality(Exiting(ch, cls, data))

RECURSIVE LinksToFront(_, _)
\* each '.link' element, in document order, is re-inserted as first child
LinksToFront(ch, i) ==
    IF i > Len(ch) THEN <<>>
    ELSE IF ch[i].cls = "link"
         THEN LinksToFront(ch, i + 1) \o <<ch[i]>>
         ELSE LinksToFront(ch, i + 1)

\* mutant: the lines are left where the join put them
ReorderedNot(ch) == ch

Reordered(ch) ==
    LinksToFront(ch, 1) \o SelectSeq(ch, LAMBDA e : e.cls # "link")

\* ------------------------------------------------------------ Config
\* sizeFactor = min(clientWidth, clientHeight) / 1000, kept times 1000
ComputeConfigOfWidth(w, h) ==
    [linkDistanceUnit |-> LinkDistanceFactor * w,
     circleRadiusUnit |-> CircleRadiusFactor * w,
     chargeStrength |-> (0 - ChargeFactor) * w]

ComputeConfig(w, h) ==
    [linkDistanceUnit |-> LinkDistanceFactor * Min(w, h),
     circleRadiusUnit |-> CircleRadiusFactor * Min(w, h),
     chargeStrength |-> (0 - ChargeFactor) * Min(w, h)]

\* d.relSize * this.config.circleRadiusUnit (in millionths)
Radius(id, cfg) == Node(id).relSize * cfg.circleRadiusUnit

\* link.target.relDistance * this.config.linkDistanceUnit (in millionths)
LinkDistance(l, cfg) == Node(l.target).relDistance * cfg.linkDistanceUnit

\* the pattern definition of a node
Pattern(id, cfg) ==
    [id |-> id, x |-> 0 - Radius(id, cfg), y |-> 0 - Radius(id, cfg),
     width |-> 2 * Radius(id, cfg), height |-> 2 * Radius(id, cfg)]

\* --------------------------------------------------------- forces
\* forceCollide().radius(d => d.relSize * circleRadiusUnit + 10): the radii
\* are computed when the force is initialized
CollideRadii(ns, cfg) ==
    [i \in DOMAIN ns |-> Radius(ns[i].id, cfg) + CollideBuffer * 1000000]

\* forceLink(links).distance(...): computed when the force is initialized
LinkDistances(ls, cfg) == [i \in DOMAIN ls |-> LinkDistance(ls[i], cfg)]

\* applyAllForces(): collide, charge, center and boundary are registered
\* anew; the link force is not touched
ApplyAllForces(f, ns, cfg, w, h) ==
    [f EXCEPT !.collide = CollideRadii(ns, cfg),
              !.charge = cfg.chargeStrength,
              !.center = <<w, h>>,
              !.boundary = <<w, h>>]

\* ------------------------------------------------------- simulation
\* initial position of the node at index i (d3's phyllotaxis arrangement)
InitX(i) == i % (MaxCoord + 1)
InitY(i) == (i \div (MaxCoord + 1)) % (MaxCoord + 1)

IndexOf(ns, id) == CHOOSE i \in DOMAIN ns : ns[i].id = id
Ids(ns) == {ns[i].id : i \in DOMAIN ns}

\* simulation.nodes(nodes): a pinned node is put on its pin, a node without
\* a position gets its initial one
NodesX(ns) ==
    [id \in NodeIds |->
        IF id \notin Ids(ns) THEN x[id]
        ELSE LET px == IF fx[id] # Null THEN fx[id] ELSE x[id]
                 py == IF fy[id] # Null THEN fy[id] ELSE y[id]
             IN  IF px = Null \/ py = Null THEN InitX(IndexOf(ns, id)) ELSE px]

NodesY(ns) ==
    [id \in NodeIds |->
        IF id \notin Ids(ns) THEN y[id]
        ELSE LET px == IF fx[id] # Null THEN fx[id] ELSE x[id]
                 py == IF fy[id] # Null THEN fy[id] ELSE y[id]
             IN  IF px = Null \/ py = Null THEN InitY(IndexOf(ns, id)) ELSE py]

\* ---------------------------------------------------------- tooltip
\* The Tooltip widget: show(), hide(), setData(event, node, radiusUnit)
TipShow(vis, k) == [vis EXCEPT ![k] = TRUE]
TipHide(vis, k) == [vis EXCEPT ![k] = FALSE]
TipSetData(data, k, id) == [data EXCEPT ![k] = id]

\* A pending timer is <<task, remaining time>>: task 0 is () => {}, task k
\* is () => tip_k.hide(), ResizeTask is the resize callback.
NoTimer == <<>>
Timer(task, rem) == <<task, rem>>
ResizeTask == 0 - 2

\* mutant: the task hides nothing
RunTaskNothing(vis, task) == vis

\* calling a hide task
RunTask(vis, task) == IF task <= 0 THEN vis ELSE TipHide(vis, task)

\* mutant: the handler does not clear the timer
ClearTimeoutKept(st, k) == st

\* clearTimeout(showTimeout) in closure k
ClearTimeout(st, k) == [st EXCEPT ![k] = NoTimer]

\* mutant: no timer is armed
SetTimeoutNone(st, k, task) == st

\* showTimeout = setTimeout(task, 800) in closure k: the handle is
\* overwritten, a timer it named keeps running
SetTimeout(st, k, task) == [st EXCEPT ![k] = Timer(task, HideDelay)]
Overwritten(st, lk, k) ==
    IF st[k] = NoTimer THEN lk ELSE lk (+) SetToBag({st[k]})

\* the element of node id among the children (there is one)
HasElement(ch, id) == \E i \in DOMAIN ch : ch[i].cls = "node" /\ ch[i].d = id
ElementOf(ch, id) == ch[CHOOSE i \in DOMAIN ch : ch[i].cls = "node" /\ ch[i].d = id]

\* mutant: the handlers are set on every node
HasDescriptionAny(id) == TRUE

\* nodeEnter.filter(d => d.description !== undefined && d.description.length > 0)
HasDescription(id) == Node(id).description > 0

Background == [at |-> "bg", i |-> 0]
OnNode(id) == [at |-> "node", i |-> id]
OnTip(k) == [at |-> "tip", i |-> k]

\* ----------------------------------------------------------- update()
\* the node ids of the collection, the data of the node join
NodeData(ns) == [i \in DOMAIN ns |-> ns[i].id]

\* number of the closure (and Tooltip) the running update() creates
NewTip == Len(tipVisible) + 1

\* first join of update(): the '.node' elements
NodeJoin(ch, ns) ==
    Join(ch, "node", NodeData(ns),
         [j \in DOMAIN ns |-> NodeElement(ns[j].id, NewTip, Radius(ns[j].id, config))])

\* second join of update(): the '.link' elements
LinkJoin(ch, ls) == Join(ch, "link", ls, [j \in DOMAIN ls |-> LineElement(ls[j])])

\* mutant: a pattern is appended for every node of the data, not only for
\* the entering ones
RECURSIVE NewPatternsAll(_, _, _)
NewPatternsAll(ch, ns, j) ==
    IF j > Len(ns) THEN <<>>
    ELSE <<Pattern(ns[j].id, config)>> \o NewPatternsAll(ch, ns, j + 1)

\* nodeEnter.each(d => ... append('defs').append('pattern') ...)
RECURSIVE NewPatterns(_, _, _)
NewPatterns(ch, ns, j) ==
    IF j > Len(ns) THEN <<>>
    ELSE (IF j \in Entering(ch, "node", NodeData(ns))
          THEN <<Pattern(ns[j].id, config)>> ELSE <<>>)
         \o NewPatterns(ch, ns, j + 1)

\* the children after update() ran on the collections ns and ls
UpdatedChildren(ch, ns, ls) == Reordered(LinkJoin(NodeJoin(ch, ns), ls))

\* new Tooltip(); document.body.appendChild(tip.getNode()): per run of the
\* enter function, which join() calls on every update()
TooltipsCreated(ch, ns) == 1

\* DOM elements one run of update() creates, and removes
UpdateCreates(ch, ns, ls) ==
    Created(ch, "node", NodeData(ns))
    + Len(NewPatterns(ch, ns, 1))
    + TooltipsCreated(ch, ns)
    + Created(NodeJoin(ch, ns), "link", ls)

UpdateRemoves(ch, ns, ls) ==
    Removed(ch, "node", NodeData(ns))
    + Removed(NodeJoin(ch, ns), "link", ls)

\* mutant: a stopped simulation is not started again
RestartNot(r) == r

\* simulation.restart(): the timer runs, whether it ran before (r) or not
Restart(r) == TRUE

\* update(): everything it changes, for the collections ns and ls
Update(ns, ls) ==
    /\ children' = UpdatedChildren(children, ns, ls)
    /\ defs' = defs \o NewPatterns(children, ns, 1)
    /\ tipVisible' = tipVisible \o [i \in 1 .. TooltipsCreated(children, ns) |-> FALSE]
    /\ tipData' = tipData \o [i \in 1 .. TooltipsCreated(children, ns) |-> 0]
    /\ showTimeout' = showTimeout \o [i \in 1 .. TooltipsCreated(children, ns) |-> NoTimer]
    /\ ptr' = IF ptr.at = "node" /\ ~HasElement(UpdatedChildren(children, ns, ls), ptr.i)
              THEN Background ELSE ptr
    /\ x' = NodesX(ns)
    /\ y' = NodesY(ns)
    /\ force' = [force EXCEPT !.collide = CollideRadii(ns, config),
                              !.link = LinkDistances(ls, config)]
    /\ alpha' = AlphaReheat
    /\ running' = Restart(running)
    /\ UNCHANGED <<leaked, hideTask, fx, fy, alphaTarget, gestures, thrown,
                   width, height, config, lastResizeTimeout, viewVars, bnode, dataVars>>

\* addNode(node)
AddNode(node) ==
    /\ nodes' = Append(nodes, node)
    /\ links' = links
    /\ Update(Append(nodes, node), links)

\* addLink(link)
AddLink(link) ==
    /\ links' = Append(links, link)
    /\ nodes' = nodes
    /\ Update(nodes, Append(links, link))

\* ------------------------------------------------------ construction
\* no node is handed to the boundary force function
NoNode == [x |-> Null, y |-> Null, vx |-> Null, vy |-> Null, relSize |-> 0]

\* the identity transform of d3.zoom (scale 1)
ZoomIdentity == [k |-> 100, x |-> 0, y |-> 0]

\* the state after construction for a viewport of a size in sizes, but for
\* the tooltips
InitScene(sizes) ==
    /\ nodes = <<>>
    /\ links = <<>>
    /\ children = <<>>
    /\ defs = <<>>
    /\ showTimeout = <<>>
    /\ leaked = EmptyBag
    /\ hideTask = 0
    /\ ptr = Background
    /\ x = [id \in NodeIds |-> Null]
    /\ y = [id \in NodeIds |-> Null]
    /\ fx = [id \in NodeIds |-> Null]
    /\ fy = [id \in NodeIds |-> Null]
    /\ alpha = AlphaStart
    /\ alphaTarget = 0
    /\ running = TRUE
    /\ gestures = [p \in Pointers |-> 0]
    /\ width \in sizes
    /\ height \in sizes
    /\ config = ComputeConfig(width, height)
    /\ force = ApplyAllForces([link |-> <<>>, collide |-> <<>>, charge |-> 0,
                               center |-> <<0, 0>>, boundary |-> <<0, 0>>],
                              <<>>, ComputeConfig(width, height), width, height)
    /\ lastResizeTimeout = NoTimer
    /\ thrown = FALSE
    /\ transform = ZoomIdentity
    /\ clicks = 0
    /\ tree = <<[item |-> rootItem, children |-> <<>>]>>
    /\ failed = FALSE

\* the constructor creates no Tooltip
InitOf(sizes) ==
    /\ InitScene(sizes)
    /\ tipVisible = <<>>
    /\ tipData = <<>>

Init == InitOf(Sizes) /\ bnode = NoNode

\* ------------------------------------------------ pointer and tooltips
\* 'mouseover' on the inner group of node id
MouseOverNode(id) ==
    LET k == ElementOf(children, id).k IN
    /\ showTimeout' = ClearTimeout(showTimeout, k)
    /\ tipData' = TipSetData(tipData, k, id)
    /\ tipVisible' = TipShow(RunTask(tipVisible, hideTask), k)
    /\ UNCHANGED <<leaked, hideTask>>

\* 'mouseout' on the inner group of node id
MouseOutNode(id) ==
    LET k == ElementOf(children, id).k IN
    /\ hideTask' = k
    /\ leaked' = Overwritten(showTimeout, leaked, k)
    /\ showTimeout' = SetTimeout(showTimeout, k, k)
    /\ UNCHANGED <<tipVisible, tipData>>

\* tip.getNode().onmouseover of the tooltip of closure k
MouseOverTip(k) ==
    /\ showTimeout' = ClearTimeout(showTimeout, k)
    /\ UNCHANGED <<tipVisible, tipData, leaked, hideTask>>

\* tip.getNode().onmouseout of the tooltip of closure k
MouseOutTip(k) ==
    /\ leaked' = Overwritten(showTimeout, leaked, k)
    /\ showTimeout' = SetTimeout(showTimeout, k, hideTask)
    /\ UNCHANGED <<tipVisible, tipData, hideTask>>

\* the pointer moves from the background onto the element of node id
PointerEnterNode(id) ==
    /\ ptr = Background
    /\ HasElement(children, id)
    /\ ptr' = OnNode(id)
    /\ IF HasDescription(id) THEN MouseOverNode(id)
       ELSE UNCHANGED <<tipVisible, tipData, showTimeout, leaked, hideTask>>
    /\ UNCHANGED <<sceneVars, simVars, sizeVars, viewVars, bnode, dataVars>>

\* the pointer moves from the background onto the shown tooltip k
PointerEnterTip(k) ==
    /\ ptr = Background
    /\ k \in DOMAIN tipVisible
    /\ tipVisible[k]
    /\ ptr' = OnTip(k)
    /\ MouseOverTip(k)
    /\ UNCHANGED <<sceneVars, simVars, sizeVars, viewVars, bnode, dataVars>>

\* the pointer leaves the element it is on
PointerLeave ==
    /\ ptr # Background
    /\ ptr' = Background
    /\ IF ptr.at = "tip" THEN MouseOutTip(ptr.i)
       ELSE IF HasDescription(ptr.i) THEN MouseOutNode(ptr.i)
       ELSE UNCHANGED <<tipVisible, tipData, showTimeout, leaked, hideTask>>
    /\ UNCHANGED <<sceneVars, simVars, sizeVars, viewVars, bnode, dataVars>>

\* A pending timer is reached by its source: <<0, k>> is the timer the
\* handle showTimeout of closure k names, <<1, tm>> a timer tm whose handle
\* was overwritten.
HideTimers ==
    {<<0, k>> : k \in {j \in DOMAIN showTimeout : showTimeout[j] # NoTimer}}
    \cup {<<1, tm>> : tm \in {t \in BagToSet(leaked) : t[1] # ResizeTask}}

TimerAt(src) == IF src[1] = 0 THEN showTimeout[src[2]] ELSE src[2]

\* a hide timer is due: its task runs
HideTimeout(src) ==
    /\ src \in HideTimers
    /\ TimerAt(src)[2] = 0
    /\ tipVisible' = RunTask(tipVisible, TimerAt(src)[1])
    /\ showTimeout' = IF src[1] = 0 THEN [showTimeout EXCEPT ![src[2]] = NoTimer]
                      ELSE showTimeout
    /\ leaked' = IF src[1] = 0 THEN leaked ELSE leaked (-) SetToBag({src[2]})
    /\ UNCHANGED <<tipData, hideTask, ptr, sceneVars, simVars, sizeVars, viewVars, bnode, dataVars>>

\* ------------------------------------------------------------- time
\* remaining times of all pending timers
Pending ==
    {showTimeout[k][2] : k \in {j \in DOMAIN showTimeout : showTimeout[j] # NoTimer}}
    \cup {tm[2] : tm \in BagToSet(leaked)}
    \cup (IF lastResizeTimeout = NoTimer THEN {} ELSE {lastResizeTimeout[2]})

Elapse(tm, d) == IF tm = NoTimer THEN NoTimer ELSE Timer(tm[1], tm[2] - d)

RECURSIVE ElapseBag(_, _, _)
ElapseBag(todo, bag, d) ==
    IF todo = {} THEN EmptyBag
    ELSE LET tm == CHOOSE t \in todo : TRUE
         IN  [t \in {Elapse(tm, d)} |-> CopiesIn(tm, bag)]
             (+) ElapseBag(todo \ {tm}, bag, d)

\* time passes, no further than the next timer that is due and no
\* further than TimeStep
AdvanceTime ==
    /\ Pending # {}
    /\ \A r \in Pending : r > 0
    /\ LET d == Min(TimeStep, CHOOSE r \in Pending : \A r2 \in Pending : r <= r2) IN
        /\ showTimeout' = [k \in DOMAIN showTimeout |-> Elapse(showTimeout[k], d)]
        /\ leaked' = ElapseBag(BagToSet(leaked), leaked, d)
        /\ lastResizeTimeout' = Elapse(lastResizeTimeout, d)
    /\ UNCHANGED <<tipVisible, tipData, hideTask, ptr, sceneVars, simVars,
                   width, height, config, force, viewVars, bnode, dataVars>>

\* ------------------------------------------------------------- drag
\* event.active of a drag event on an element of closure k: the gestures
\* in progress on the drag behaviour that closure created
Active(g, k) ==
    Cardinality({p \in Pointers : g[p] # 0 /\ ElementOf(children, g[p]).k = k})

\* dragstarted(event, d): pointer p starts to drag node id; event.x and
\* event.y are the position of the node
DragStarted(p, id) ==
    /\ gestures[p] = 0
    /\ HasElement(children, id)
    /\ gestures' = [gestures EXCEPT ![p] = id]
    /\ IF Active(gestures, ElementOf(children, id).k) = 0
       THEN alphaTarget' = AlphaDrag /\ running' = TRUE
       ELSE UNCHANGED <<alphaTarget, running>>
    /\ fx' = [fx EXCEPT ![id] = x[id]]
    /\ fy' = [fy EXCEPT ![id] = y[id]]
    /\ UNCHANGED <<x, y, alpha, thrown, sceneVars, tipVars, sizeVars, viewVars, bnode, dataVars>>

\* dragged(event, d): pointer p moves, the event is at (ex, ey)
Dragged(p, ex, ey) ==
    /\ gestures[p] # 0
    /\ fx' = [fx EXCEPT ![gestures[p]] = ex]
    /\ fy' = [fy EXCEPT ![gestures[p]] = ey]
    /\ UNCHANGED <<x, y, alpha, alphaTarget, running, gestures, thrown,
                   sceneVars, tipVars, sizeVars, viewVars, bnode, dataVars>>

\* dragended(event, d): pointer p is released
DragEnded(p) ==
    /\ gestures[p] # 0
    /\ gestures' = [gestures EXCEPT ![p] = 0]
    /\ IF Active([gestures EXCEPT ![p] = 0], ElementOf(children, gestures[p]).k) = 0
       THEN alphaTarget' = 0
       ELSE UNCHANGED alphaTarget
    /\ fx' = [fx EXCEPT ![gestures[p]] = Null]
    /\ fy' = [fy EXCEPT ![gestures[p]] = Null]
    /\ UNCHANGED <<x, y, alpha, running, thrown, sceneVars, tipVars, sizeVars, viewVars, bnode, dataVars>>

\* ------------------------------------------------------------- tick
\* alpha += (alphaTarget - alpha) * alphaDecay, one tenth at a time
Decayed(a, target) ==
    IF a > target THEN a - Min(AlphaStep, a - target)
    ELSE a + Min(AlphaStep, target - a)

\* the integration step of the simulation: a pinned node is put on its
\* pin, a free node goes where the forces (nx) take it
IntegrateFree(pos, pin, nx) ==
    [id \in NodeIds |-> IF id \notin Ids(nodes) THEN pos[id] ELSE nx[id]]

Integrate(pos, pin, nx) ==
    [id \in NodeIds |->
        IF id \notin Ids(nodes) THEN pos[id]
        ELSE IF pin[id] # Null THEN pin[id] ELSE nx[id]]

\* the '.link' / '.node' elements in document order, as indices
RECURSIVE Selected(_, _, _)
Selected(ch, cls, i) ==
    IF i > Len(ch) THEN <<>>
    ELSE (IF ch[i].cls = cls THEN <<i>> ELSE <<>>) \o Selected(ch, cls, i + 1)

\* selectLinks() / selectNodes(): data(...) without a key binds by index.
\* The datum the tick callback binds to child i (Null: none)
Bound(ch, cls, data, i) ==
    LET sel == Selected(ch, cls, 1)
        at == {n \in DOMAIN sel : sel[n] = i}
    IN  IF at = {} THEN Null
        ELSE LET n == CHOOSE m \in at : TRUE
             IN  IF n \in DOMAIN data THEN n ELSE Null

\* the first link, in binding order, for which the tick callback fails:
\* stage 1 reads source.x (x1), stage 3 reads target.x (x2); 0 if none
\* mutant: only the source of a link is looked at
FailsAtSource(ls, px, n, stage) ==
    LET bad == {j \in 1 .. n : stage = 1 /\ px[ls[j].source] = Null}
    IN  IF bad = {} THEN 0 ELSE CHOOSE j \in bad : \A j2 \in bad : j <= j2

FailsAt(ls, px, n, stage) ==
    LET bad == {j \in 1 .. n :
                  px[IF stage = 1 THEN ls[j].source ELSE ls[j].target] = Null}
    IN  IF bad = {} THEN 0 ELSE CHOOSE j \in bad : \A j2 \in bad : j <= j2

\* ticked(): the attributes of the children after the callback, for the
\* positions px, py.  attr('x1') runs over all lines before attr('y1'),
\* and so on; assert.fail() ends the callback where it is raised.
Ticked(ch, px, py) ==
    LET nl == Min(Len(Selected(ch, "link", 1)), Len(links))
        f1 == FailsAt(links, px, nl, 1)
        f3 == IF f1 = 0 THEN FailsAt(links, px, nl, 3) ELSE 1
        old(e) == IF e.t = <<>> THEN <<Null, Null, Null, Null>> ELSE e.t
    IN  [i \in DOMAIN ch |->
            LET e == ch[i] IN
            IF e.cls = "link" THEN
                LET j == Bound(ch, "link", links, i) IN
                IF j = Null THEN e
                ELSE LET l == links[j]
                         o == old(e)
                     IN  [e EXCEPT
                            !.d = l,
                            !.t = <<IF f1 = 0 \/ j < f1 THEN px[l.source] ELSE o[1],
                                    IF f1 = 0 THEN py[l.source] ELSE o[2],
                                    IF f1 = 0 /\ (f3 = 0 \/ j < f3) THEN px[l.target] ELSE o[3],
                                    IF f1 = 0 /\ f3 = 0 THEN py[l.target] ELSE o[4]>>]
            ELSE
                LET j == Bound(ch, "node", nodes, i) IN
                IF j = Null \/ f1 # 0 \/ f3 # 0 THEN e
                ELSE [e EXCEPT !.d = nodes[j].id,
                               !.t = <<px[nodes[j].id], py[nodes[j].id]>>]]

Throws(px) ==
    LET nl == Min(Len(Selected(children, "link", 1)), Len(links))
    IN  FailsAt(links, px, nl, 1) # 0 \/ FailsAt(links, px, nl, 3) # 0

\* one step of the simulation timer: tick(), the 'tick' callback, and the
\* stop below alphaMin, which an exception of the callback skips
Tick(nx, ny) ==
    /\ running
    /\ alpha' = Decayed(alpha, alphaTarget)
    /\ x' = Integrate(x, fx, nx)
    /\ y' = Integrate(y, fy, ny)
    /\ children' = Ticked(children, Integrate(x, fx, nx), Integrate(y, fy, ny))
    /\ running' = (Throws(Integrate(x, fx, nx)) \/ Decayed(alpha, alphaTarget) >= 1)
    /\ thrown' = Throws(Integrate(x, fx, nx))
    /\ UNCHANGED <<nodes, links, defs, fx, fy, alphaTarget, gestures, tipVars, sizeVars,
                   viewVars, bnode, dataVars>>

\* --------------------------------------------------- boundary force
\* mutant: the test against the upper limit is turned around
BoundaryAxisTurned(pos, v, lo, hi, a) ==
    IF pos # Null /\ v # Null /\ pos * 1000000 <= lo
    THEN v + (lo - pos * 1000000) * BoundaryStrength * a
    ELSE IF pos # Null /\ v # Null /\ pos * 1000000 <= hi
         THEN v + (hi - pos * 1000000) * BoundaryStrength * a
         ELSE v

\* one axis of the boundary force: the velocity after the force, for the
\* position pos (px), the velocity v (1e-8 px per tick), the limits lo and
\* hi (1e-6 px) and alpha a (tenths)
BoundaryAxis(pos, v, lo, hi, a) ==
    IF pos # Null /\ v # Null /\ pos * 1000000 <= lo
    THEN v + (lo - pos * 1000000) * BoundaryStrength * a
    ELSE IF pos # Null /\ v # Null /\ pos * 1000000 >= hi
         THEN v + (hi - pos * 1000000) * BoundaryStrength * a
         ELSE v

\* mutant: a hard clamp, which also puts a node that is outside on the limit
BoundaryForceClamped(node, params, cfg, a) ==
    LET radius == node.relSize * cfg.circleRadiusUnit
    IN  [node EXCEPT
            !.x = IF node.x # Null /\ node.x * 1000000 > params[1] * 1000000 - radius
                  THEN params[1] ELSE node.x,
            !.vx = BoundaryAxis(node.x, node.vx, radius, params[1] * 1000000 - radius, a),
            !.vy = BoundaryAxis(node.y, node.vy, radius, params[2] * 1000000 - radius, a)]

\* the body of the loop of the boundary force for one node; params is the
\* <<width, height>> the force was registered with
BoundaryForce(node, params, cfg, a) ==
    LET radius == node.relSize * cfg.circleRadiusUnit
    IN  [node EXCEPT
            !.vx = BoundaryAxis(node.x, node.vx, radius, params[1] * 1000000 - radius, a),
            !.vy = BoundaryAxis(node.y, node.vy, radius, params[2] * 1000000 - radius, a)]

Slow(v) == v = Null \/ (v <= MaxVelocity /\ 0 - v <= MaxVelocity)

\* the simulation calls the boundary force with alpha a
ApplyBoundary(a) ==
    /\ bnode # NoNode
    /\ Slow(bnode.vx) /\ Slow(bnode.vy)
    /\ bnode' = BoundaryForce(bnode, force.boundary, config, a)
    /\ UNCHANGED <<sceneVars, simVars, sizeVars, viewVars, tipVars, dataVars>>

\* ------------------------------------------------------ zoom and pan
\* mutant: the scale is not held within the extent
ScaledFree(k) == k

\* d3.zoom().scaleExtent([0.1, 4]): the scale a gesture that asks for k gets
Scaled(k) ==
    IF k < ScaleMin THEN ScaleMin ELSE IF k > ScaleMax THEN ScaleMax ELSE k

\* a wheel or pinch gesture asks for the scale k: the 'zoom' listener sets
\* the transform of the main group; no event when the scale stays
Zoom(k) ==
    /\ Scaled(k) # transform.k
    /\ transform' = [transform EXCEPT !.k = Scaled(k)]
    /\ UNCHANGED <<clicks, bnode, dataVars, sceneVars, simVars, sizeVars, tipVars>>

\* a pan gesture moves the scene by (dx, dy)
Pan(dx, dy) ==
    /\ <<dx, dy>> # <<0, 0>>
    /\ transform.x + dx \in (0 - MaxPan) .. MaxPan
    /\ transform.y + dy \in (0 - MaxPan) .. MaxPan
    /\ transform' = [transform EXCEPT !.x = @ + dx, !.y = @ + dy]
    /\ UNCHANGED <<clicks, bnode, dataVars, sceneVars, simVars, sizeVars, tipVars>>

\* a click on the background: mousedown and mouseup on the svg without a
\* move start and end a zoom gesture without a 'zoom' event, and the
\* visualizer listens to no click
BackgroundClick ==
    /\ ptr = Background
    /\ clicks < MaxClicks
    /\ clicks' = clicks + 1
    /\ UNCHANGED <<transform, bnode, dataVars, sceneVars, simVars, sizeVars, tipVars>>

\* ----------------------------------------------------------- resize
\* mutant: the pending timer is not cleared
ClearResizeKept(tm) == tm

\* if (lastResizeTimeout !== undefined) clearTimeout(lastResizeTimeout):
\* what is left pending of the timer the handle names
ClearResize(tm) == NoTimer

\* the ResizeObserver callback, for its one entry: the viewport now is w by h
Resize(w, h) ==
    /\ width' = w
    /\ height' = h
    /\ leaked' = IF ClearResize(lastResizeTimeout) = NoTimer THEN leaked
                 ELSE leaked (+) SetToBag({ClearResize(lastResizeTimeout)})
    /\ lastResizeTimeout' = Timer(ResizeTask, ResizeDelay)
    /\ UNCHANGED <<config, force, sceneVars, simVars, viewVars, bnode, dataVars,
                   tipVisible, tipData, showTimeout, hideTask, ptr>>

\* mutant: the callback forgets the handle and recomputes nothing
RecomputeNothing ==
    /\ lastResizeTimeout' = NoTimer
    /\ UNCHANGED <<config, force, alpha, running,
                   width, height, x, y, fx, fy, alphaTarget, gestures, thrown,
                   viewVars, bnode, dataVars,
                   sceneVars, tipVisible, tipData, showTimeout, hideTask, ptr>>

\* mutant: the recomputation releases the pins
RecomputeUnpinned ==
    /\ config' = ComputeConfig(width, height)
    /\ force' = ApplyAllForces(force, nodes, ComputeConfig(width, height), width, height)
    /\ alpha' = AlphaResize
    /\ running' = Restart(running)
    /\ lastResizeTimeout' = NoTimer
    /\ fx' = [id \in NodeIds |-> Null]
    /\ fy' = [id \in NodeIds |-> Null]
    /\ UNCHANGED <<width, height, x, y, alphaTarget, gestures, thrown,
                   viewVars, bnode, dataVars,
                   sceneVars, tipVisible, tipData, showTimeout, hideTask, ptr>>

\* the body of the resize timer's callback
Recompute ==
    /\ config' = ComputeConfig(width, height)
    /\ force' = ApplyAllForces(force, nodes, ComputeConfig(width, height), width, height)
    /\ alpha' = AlphaResize
    /\ running' = Restart(running)
    /\ lastResizeTimeout' = NoTimer
    /\ UNCHANGED <<width, height, x, y, fx, fy, alphaTarget, gestures, thrown,
                   viewVars, bnode, dataVars,
                   sceneVars, tipVisible, tipData, showTimeout, hideTask, ptr>>

\* the pending resize timers by source: <<0, tm>> is the one the handle
\* lastResizeTimeout names, <<1, tm>> one that was replaced without being
\* cleared
ResizeTimers ==
    (IF lastResizeTimeout = NoTimer THEN {} ELSE {<<0, lastResizeTimeout>>})
    \cup {<<1, tm>> : tm \in {t \in BagToSet(leaked) : t[1] = ResizeTask}}

\* a resize timer is due: its callback runs, and forgets the handle
ResizeTimeout(src) ==
    /\ src \in ResizeTimers
    /\ src[2][2] = 0
    /\ leaked' = IF src[1] = 0 THEN leaked
                 ELSE IF lastResizeTimeout = NoTimer THEN leaked (-) SetToBag({src[2]})
                 ELSE (leaked (-) SetToBag({src[2]})) (+) SetToBag({lastResizeTimeout})
    /\ Recompute

\* ------------------------------------ the visualizer with a shared tooltip
\* GraphVisualizer of src/unnamed/part_000 (lines 343-653): the constructor
\* creates the one Tooltip this.tip (tooltip 1); update() still has one
\* timer handle showTimeout per run of the enter function, and sets the
\* tooltip's onmouseover and onmouseout anew on every run, so these are the
\* handlers of the last closure, Len(showTimeout).
NoData == [node |-> 0, event |-> "none"]

SharedInit ==
    /\ InitScene({MaxSize})
    /\ tipVisible = <<FALSE>>
    /\ tipData = <<NoData>>
    /\ bnode = NoNode

\* forceCollide().radius(d => d.relSize * circleRadiusUnit)
SharedCollideRadii(ns, cfg) == [i \in DOMAIN ns |-> Radius(ns[i].id, cfg)]

\* update() of the shared-tooltip visualizer
SharedUpdate(ns, ls) ==
    LET joined == Join(children, "node", NodeData(ns),
                       [j \in DOMAIN ns |->
                           NodeElement(ns[j].id, Len(showTimeout) + 1,
                                       Radius(ns[j].id, config))])
        ch == Reordered(LinkJoin(joined, ls))
    IN  /\ children' = ch
        /\ defs' = defs \o NewPatterns(children, ns, 1)
        /\ showTimeout' = Append(showTimeout, NoTimer)
        /\ ptr' = IF ptr.at = "node" /\ ~HasElement(ch, ptr.i) THEN Background ELSE ptr
        /\ x' = NodesX(ns)
        /\ y' = NodesY(ns)
        /\ force' = [force EXCEPT !.collide = SharedCollideRadii(ns, config),
                                  !.link = LinkDistances(ls, config)]
        /\ alpha' = AlphaReheat
        /\ running' = Restart(running)
        /\ UNCHANGED <<tipVisible, tipData, leaked, hideTask, fx, fy, alphaTarget,
                       gestures, thrown, width, height, config, lastResizeTimeout,
                       viewVars, bnode, dataVars>>

SharedAddNode(node) ==
    /\ nodes' = Append(nodes, node)
    /\ links' = links
    /\ SharedUpdate(Append(nodes, node), links)

SharedAddLink(link) ==
    /\ links' = Append(links, link)
    /\ nodes' = nodes
    /\ SharedUpdate(nodes, Append(links, link))

\* the body of the 'mouseover' and of the 'click' handler of node id:
\* clearTimeout(showTimeout); tip.setData(event, d, ...); hideTask(); tip.show()
SharedShow(id, event) ==
    LET k == ElementOf(children, id).k IN
    /\ showTimeout' = ClearTimeout(showTimeout, k)
    /\ tipData' = TipSetData(tipData, 1, [node |-> id, event |-> event])
    /\ tipVisible' = TipShow(RunTask(tipVisible, hideTask), 1)
    /\ UNCHANGED <<leaked, hideTask>>

\* mutant: leaving a node does not set the hide task
SharedHideTaskKept(task) == task

\* this.hideTask = () => this.tip.hide(): the task that hides tooltip 1
SharedHideTask(task) == 1

\* the pointer moves from the background onto the element of node id
SharedPointerEnterNode(id) ==
    /\ ptr = Background
    /\ HasElement(children, id)
    /\ ptr' = OnNode(id)
    /\ IF HasDescription(id) THEN SharedShow(id, "mouseover")
       ELSE UNCHANGED <<tipVisible, tipData, showTimeout, leaked, hideTask>>
    /\ UNCHANGED <<sceneVars, simVars, sizeVars, viewVars, bnode, dataVars>>

\* a click (or the click of a tap) on the node the pointer is on
SharedClickNode(id) ==
    /\ ptr = OnNode(id)
    /\ HasDescription(id)
    /\ SharedShow(id, "click")
    /\ UNCHANGED <<ptr, sceneVars, simVars, sizeVars, viewVars, bnode, dataVars>>

\* the pointer moves from the background onto the shown tooltip:
\* tip.getNode().onmouseover clears the handle of the last closure
SharedPointerEnterTip ==
    /\ ptr = Background
    /\ tipVisible[1]
    /\ showTimeout # <<>>
    /\ ptr' = OnTip(1)
    /\ showTimeout' = ClearTimeout(showTimeout, Len(showTimeout))
    /\ UNCHANGED <<tipVisible, tipData, leaked, hideTask,
                   sceneVars, simVars, sizeVars, viewVars, bnode, dataVars>>

\* the pointer leaves the element it is on: 'mouseout' of the node, in the
\* closure that created its element, or onmouseout of the tooltip, in the
\* last closure
SharedPointerLeave ==
    /\ ptr # Background
    /\ ptr' = Background
    /\ IF ptr.at = "tip"
       THEN /\ leaked' = Overwritten(showTimeout, leaked, Len(showTimeout))
            /\ showTimeout' = SetTimeout(showTimeout, Len(showTimeout), hideTask)
            /\ UNCHANGED hideTask
       ELSE IF HasDescription(ptr.i)
       THEN LET k == ElementOf(children, ptr.i).k IN
            /\ hideTask' = SharedHideTask(hideTask)
            /\ leaked' = Overwritten(showTimeout, leaked, k)
            /\ showTimeout' = SetTimeout(showTimeout, k, SharedHideTask(hideTask))
       ELSE UNCHANGED <<showTimeout, leaked, hideTask>>
    /\ UNCHANGED <<tipVisible, tipData, sceneVars, simVars, sizeVars, viewVars, bnode, dataVars>>

\* the 'zoom' listener: the transform is set and the tooltip hidden
SharedZoom(k) ==
    /\ Scaled(k) # transform.k
    /\ transform' = [transform EXCEPT !.k = Scaled(k)]
    /\ tipVisible' = TipHide(tipVisible, 1)
    /\ UNCHANGED <<clicks, bnode, dataVars, sceneVars, simVars, sizeVars,
                   tipData, showTimeout, leaked, hideTask, ptr>>

\* the 'click' listener of the svg: a click on the background (a click on
\* a node stops its propagation) hides the tooltip
SharedBackgroundClick ==
    /\ ptr = Background
    /\ tipVisible' = TipHide(tipVisible, 1)
    /\ UNCHANGED <<viewVars, bnode, dataVars, sceneVars, simVars, sizeVars,
                   tipData, showTimeout, leaked, hideTask, ptr>>

\* ------------------------------------------------------------- CV tree
\* A Tree object is tree[i]: its item, and its children as indices into
\* tree.  An item is the object it is: the CVItem of tree[i] is named i, and
\* a number that is no index names an object that is in no Tree.

\* mutant: the product is cut off instead of rounded
TimesTruncated(v, percent) == (v * percent) \div 100

\* v * 0.65 or v * 0.6: the product rounded to the nearest number there is,
\* as a floating-point multiplication rounds
Times(v, percent) == (v * percent + 50) \div 100

\* walkTree inside findItem: the Tree whose item is the object item, in
\* the subtree of tree[i], or Null (undefined)
RECURSIVE walkTree(_, _, _)
RECURSIVE walkChildren(_, _, _, _)
walkTree(t, i, item) ==
    IF i = item THEN i ELSE walkChildren(t, t[i].children, 1, item)

\* the loop over tree.children, from the n-th child on
walkChildren(t, subTrees, n, item) ==
    IF n > Len(subTrees) THEN Null
    ELSE LET res == walkTree(t, subTrees[n], item)
         IN  IF res # Null THEN res ELSE walkChildren(t, subTrees, n + 1, item)

\* findItem(item): Null stands for the call ending in assert.fail()
findItem(t, item) == walkTree(t, 1, item)

\* the item addItem makes for info under the parent item; a field of info
\* that is Null is undefined
NewItem(info, parentItem) ==
    LET newRelSize == IF parentItem.depth >= ShrinkDepth
                      THEN parentItem.relSize
                      ELSE Times(parentItem.relSize, ShrinkPercent)
    IN  [depth |-> parentItem.depth + 1,
         relDistance |-> IF info.relDistance # Null THEN info.relDistance
                         ELSE Times(parentItem.relDistance, DistancePercent),
         relSize |-> IF info.relSize # Null THEN info.relSize ELSE newRelSize]

\* addItem(info, parent)
addItem(info, parent) ==
    /\ LET parentTree == findItem(tree, parent) IN
       IF parentTree = Null
       THEN failed' = TRUE /\ UNCHANGED tree
       ELSE /\ Len(tree) < MaxItems
            /\ tree' = Append([tree EXCEPT ![parentTree].children = Append(@, Len(tree) + 1)],
                              [item |-> NewItem(info, tree[parentTree].item),
                               children |-> <<>>])
            /\ failed' = FALSE
    /\ UNCHANGED <<sceneVars, simVars, sizeVars, viewVars, tipVars, bnode>>

\* ---------------------------------------------------- specifications
\* calls the host page makes: it flattens the CV tree, the root first, so
\* node ids are unique and come in order, and a link goes from a parent to
\* a child that comes later in the tree; link identities are unique
CanAddNode(node) == node.id = Len(nodes) + 1
CanAddLink(link) ==
    /\ link.source < link.target
    /\ \A i \in DOMAIN links : LinkKey(links[i]) # LinkKey(link)

AddSomeNode(maxNodes) ==
    \E id \in 1 .. maxNodes : CanAddNode(Node(id)) /\ AddNode(Node(id))

AddSomeLink(maxNodes, maxLinks) ==
    \E s \in 1 .. maxNodes, t \in 1 .. maxNodes :
        /\ Len(links) < maxLinks
        /\ CanAddLink(Link(s, t))
        /\ AddLink(Link(s, t))

\* what the forces do to the free nodes in one tick: they stay in their
\* arrangement and are shifted as a whole
FieldsX == {[id \in NodeIds |-> (c + id) % (MaxCoord + 1)] : c \in Coord}
FieldsY == {[id \in NodeIds |-> (c + (id \div (MaxCoord + 1))) % (MaxCoord + 1)] : c \in Coord}

SomeTick == \E nx \in FieldsX, ny \in FieldsY : Tick(nx, ny)

\* Tooltips: the scene grows while the pointer moves and time passes
NextTip ==
    \/ AddSomeNode(MaxNodes)
    \/ AddSomeLink(MaxNodes, MaxLinks)
    \/ \E id \in NodeIds : PointerEnterNode(id)
    \/ \E k \in DOMAIN tipVisible : PointerEnterTip(k)
    \/ PointerLeave
    \/ \E src \in HideTimers : HideTimeout(src)
    \/ AdvanceTime

InitTip == Init /\ width = MaxSize /\ height = MaxSize

SpecTip == InitTip /\ [][NextTip]_vars

\* Scene: the scene grows while the simulation ticks.  The elements a
\* tick binds and draws do not depend on where the nodes are: the forces
\* put the free nodes in one arrangement
SceneX == [id \in NodeIds |-> id % (MaxCoord + 1)]
SceneY == [id \in NodeIds |-> 0]

SceneTick == Tick(SceneX, SceneY)

NextScene ==
    \/ AddSomeNode(MaxNodes)
    \/ AddSomeLink(MaxNodes, SceneLinks)
    \/ SceneTick

SpecScene == InitTip /\ [][NextScene]_vars

\* Pins: nodes are dragged while the simulation ticks, the scene grows and
\* the viewport is resized
NextPin ==
    \/ AddSomeNode(PinNodes)
    \/ AddSomeLink(PinNodes + 1, MaxLinks)
    \/ \E p \in Pointers, id \in NodeIds : DragStarted(p, id)
    \/ \E p \in Pointers, ex \in Coord, ey \in Coord : Dragged(p, ex, ey)
    \/ \E p \in Pointers : DragEnded(p)
    \/ SomeTick
    \/ \E w \in Sizes : Resize(w, w)
    \/ \E src \in ResizeTimers : ResizeTimeout(src)
    \/ AdvanceTime

SpecPin == InitTip /\ [][NextPin]_vars

\* Reheat: one pointer drags a node while the simulation ticks and the
\* viewport is resized
NextReheat ==
    \/ AddSomeNode(PinNodes)
    \/ \E id \in NodeIds : DragStarted(1, id)
    \/ DragEnded(1)
    \/ SceneTick
    \/ \E w \in Sizes : Resize(w, w)
    \/ \E src \in ResizeTimers : ResizeTimeout(src)
    \/ AdvanceTime

SpecReheat == InitTip /\ [][NextReheat]_vars

\* Drag: several pointers drag the nodes, each node having the drag
\* behaviour of the update() call that created its element, while the
\* simulation ticks
NextDrag ==
    \/ AddSomeNode(DragNodes)
    \/ \E p \in Pointers, id \in NodeIds : DragStarted(p, id)
    \/ \E p \in Pointers : DragEnded(p)
    \/ SceneTick

SpecDrag == InitTip /\ [][NextDrag]_vars

\* the simulation's timer calls its callback while it runs
SpecDragLive == SpecDrag /\ WF_vars(SceneTick)

\* Frame: while one pointer drags a node, the scene grows and gets a link
\* from the root to the node added last, the viewport collapses, the scene
\* is zoomed in and the mouse moves over the nodes and their tooltips
NextFrame ==
    \/ AddSomeNode(FrameNodes)
    \/ /\ Len(links) = 0
       /\ Len(nodes) > 1
       /\ AddLink(Link(1, Len(nodes)))
    \/ \E id \in NodeIds : DragStarted(1, id)
    \/ Dragged(1, MaxCoord, MaxCoord)
    \/ DragEnded(1)
    \/ Resize(0, 0)
    \/ \E src \in ResizeTimers : ResizeTimeout(src)
    \/ AdvanceTime
    \/ Zoom(ScaleMax)
    \/ \E id \in NodeIds : PointerEnterNode(id)
    \/ \E k \in DOMAIN tipVisible : PointerEnterTip(k)
    \/ PointerLeave
    \/ \E src \in HideTimers : HideTimeout(src)

SpecFrame == InitTip /\ [][NextFrame]_vars

\* Data: items are added to the CV tree, with and without explicit
\* (positive) relSize and relDistance, under items of the tree and under
\* objects that are not in it (0, and the items not made yet)
Overrides == {Null, MaxOverride}
Infos == [relDistance : Overrides, relSize : Overrides]
Parents == 0 .. MaxItems

NextData == \E info \in Infos, parent \in Parents : addItem(info, parent)

SpecData == InitTip /\ [][NextData]_vars

\* Resize: the viewport changes while time passes and the scene grows
NextResize ==
    \/ AddSomeNode(ResizeNodes)
    \/ AddSomeLink(ResizeNodes + 1, MaxLinks)
    \/ \E w \in Sizes, h \in Sizes : Resize(w, h)
    \/ \E src \in ResizeTimers : ResizeTimeout(src)
    \/ AdvanceTime

SpecResize == Init /\ [][NextResize]_vars

\* the event loop lets time pass and runs a timer that is due
SpecResizeLive ==
    /\ SpecResize
    /\ WF_vars(AdvanceTime)
    /\ WF_vars(\E src \in ResizeTimers : ResizeTimeout(src))

\* Zoom: the scene is zoomed, panned and clicked while the pointer moves
\* over the nodes and time passes
NextZoom ==
    \/ AddSomeNode(ZoomNodes)
    \/ \E id \in NodeIds : PointerEnterNode(id)
    \/ \E k \in DOMAIN tipVisible : PointerEnterTip(k)
    \/ PointerLeave
    \/ \E src \in HideTimers : HideTimeout(src)
    \/ AdvanceTime
    \/ \E k \in {transform.k * ZoomFactor, transform.k \div ZoomFactor} : Zoom(k)
    \/ \E dx \in {0 - 1, 0, 1}, dy \in {0 - 1, 0, 1} : Pan(dx, dy)
    \/ BackgroundClick

SpecZoom == InitTip /\ [][NextZoom]_vars

\* Shared tooltip: the scene of the shared-tooltip visualizer grows, the
\* host linking the root to the node it added last, while the pointer moves
\* and clicks, the scene is zoomed all the way in and time passes
NextShared ==
    \/ \E id \in NodeIds : CanAddNode(Node(id)) /\ SharedAddNode(Node(id))
    \/ /\ Len(links) < MaxLinks
       /\ Len(nodes) > 1
       /\ CanAddLink(Link(1, Len(nodes)))
       /\ SharedAddLink(Link(1, Len(nodes)))
    \/ \E id \in NodeIds : SharedPointerEnterNode(id)
    \/ \E id \in NodeIds : SharedClickNode(id)
    \/ SharedPointerEnterTip
    \/ SharedPointerLeave
    \/ \E src \in HideTimers : HideTimeout(src)
    \/ AdvanceTime
    \/ SharedZoom(ScaleMax)
    \/ SharedBackgroundClick

SpecShared == SharedInit /\ [][NextShared]_vars

\* Boundary: the boundary force is run on a node of any position and
\* velocity, in a viewport of any size, with any alpha the simulation has
BoundaryNodes ==
    [x : (0 .. BoundSize) \cup {Null}, y : (0 .. BoundSize) \cup {Null},
     vx : {Null, 0, MaxVelocity}, vy : {Null, 0, MaxVelocity},
     relSize : {Node(1).relSize, Node(2).relSize}]

Alphas == {0, AlphaReheat, AlphaStart}

InitBoundary == InitOf(0 .. BoundSize) /\ bnode \in BoundaryNodes

NextBoundary == \E a \in Alphas : ApplyBoundary(a)

SpecBoundary == InitBoundary /\ [][NextBoundary]_vars

\* ================================================================ claims
\* the pointer p is on the node element of closure k or on tooltip k
PointerOn(p, k, ch) ==
    \/ p = OnTip(k)
    \/ /\ p.at = "node"
       /\ HasDescription(p.i)
       /\ HasElement(ch, p.i)
       /\ ElementOf(ch, p.i).k = k

Visible == {k \in DOMAIN tipVisible : tipVisible[k]}

\* C1: a tooltip that is showing when the pointer comes (back) onto its
\* node or onto the tooltip itself, which is the case when it comes less
\* than 800 ms after it left, is not hidden by that step, nor by any step
\* taken while the pointer stays on the node or the tooltip.
C1_Hysteresis ==
    [][\A k \in DOMAIN tipVisible :
          (tipVisible[k] /\ PointerOn(ptr', k, children')) => tipVisible'[k]]_vars

\* C1 witness: the pointer left a node, went onto its tooltip before the
\* timer fired, and the tooltip shows with no timer pending
C1_Witness ==
    \E k \in DOMAIN tipVisible :
        /\ ptr = OnTip(k)
        /\ tipVisible[k]
        /\ hideTask = k
        /\ showTimeout[k] = NoTimer

\* C2: whenever a tooltip shows and the pointer is neither on its node nor
\* on the tooltip, a timer that hides this tooltip is pending and is due at
\* most 800 ms later (time does not pass a timer that is due).
C2_HiddenAfterDelay ==
    \A k \in Visible :
        ~PointerOn(ptr, k, children) =>
            \E src \in HideTimers :
                /\ TimerAt(src)[1] = k
                /\ TimerAt(src)[2] \in 0 .. HideDelay

\* C2 witness: the pointer left the node, stayed away, and the timer of
\* the node's closure fired and hid the tooltip
C2_Witness ==
    \E k \in DOMAIN tipVisible :
        /\ ptr = Background
        /\ tipData[k] # 0
        /\ ~tipVisible[k]
        /\ hideTask = k
        /\ showTimeout[k] = NoTimer

\* the step brings the pointer onto a node that has a description
EntersNode == ptr' # ptr /\ ptr'.at = "node" /\ HasDescription(ptr'.i)

\* C3: at most one tooltip shows; a step that brings the pointer onto a
\* node with a description leaves showing that node's tooltip with that
\* node's data and nothing else; no other step shows a tooltip or changes
\* the data of one that shows.
C3_OneTooltipOfLastNode ==
    /\ [](Cardinality(Visible) <= 1)
    /\ [][IF EntersNode
          THEN /\ tipVisible'[ElementOf(children', ptr'.i).k]
               /\ \A k \in DOMAIN tipVisible' :
                     tipVisible'[k] => tipData'[k] = ptr'.i
          ELSE \A k \in DOMAIN tipVisible' :
                  tipVisible'[k] =>
                      /\ k \in DOMAIN tipVisible
                      /\ tipVisible[k]
                      /\ tipData'[k] = tipData[k]]_vars

\* C3 witness: the pointer is on a second node, whose tooltip shows, after
\* the tooltip of the node it left was hidden
C3_Witness ==
    \E k1 \in DOMAIN tipVisible, k2 \in DOMAIN tipVisible :
        /\ k1 # k2
        /\ tipData[k1] # 0
        /\ ~tipVisible[k1]
        /\ hideTask = k1
        /\ tipVisible[k2]
        /\ ptr = OnNode(tipData[k2])

\* C4: after the addNode and addLink calls made so far (at least one),
\* exactly one Tooltip was created and attached to the document.
C4_ExactlyOneTooltip ==
    (Len(nodes) + Len(links) > 0) => Len(tipVisible) = 1

\* the step runs the resize callback / is a resize signal
IsRecompute == \E src \in ResizeTimers : ResizeTimeout(src)
IsResize == \E w \in Sizes, h \in Sizes : Resize(w, h)

ResizePending == Cardinality(ResizeTimers)

IsTick == \E nx \in FieldsX, ny \in FieldsY : Tick(nx, ny)

\* C6: after every tick, a node whose pin is set is at its pin, on each
\* axis, whatever the forces computed for it.
C6_PinnedStaysAtPin ==
    [][IsTick =>
          \A id \in Ids(nodes) :
              /\ fx'[id] # Null => x'[id] = fx'[id]
              /\ fy'[id] # Null => y'[id] = fy'[id]]_vars

\* C6 witness: a node pinned away from where it was placed was drawn by a
\* tick at its pin
C6_Witness ==
    \E id \in Ids(nodes) :
        /\ fx[id] # Null
        /\ fy[id] # Null
        /\ fx[id] # InitX(IndexOf(nodes, id))
        /\ x[id] = fx[id]
        /\ HasElement(children, id)
        /\ ElementOf(children, id).t = <<fx[id], fy[id]>>

\* C7: a node is pinned exactly while a drag gesture holds it.
C7_PinnedExactlyWhileDragged ==
    \A id \in NodeIds :
        (\E p \in Pointers : gestures[p] = id) <=> (fx[id] # Null /\ fy[id] # Null)

\* C8: when no recomputation is pending, that is after construction and
\* after each recomputation, the configuration is the linear function of
\* s = min(width, height): radius unit 0.08 s, link distance unit 0.3 s,
\* charge strength -0.06 s (in thousandths).
C8_ConfigLinear ==
    (lastResizeTimeout = NoTimer /\ ResizePending = 0) =>
        LET s == IF width <= height THEN width ELSE height
        IN  /\ config.circleRadiusUnit = 80 * s
            /\ config.linkDistanceUnit = 300 * s
            /\ config.chargeStrength = 0 - 60 * s

\* C8 witness: the recomputation ran for a viewport wider than it is high
C8_Witness ==
    /\ Len(nodes) > 0
    /\ alpha = AlphaResize
    /\ lastResizeTimeout = NoTimer
    /\ ResizePending = 0
    /\ width > height

\* C9: once update() has run, a further run creates no element and removes
\* none.
C9_UpdateIdempotent ==
    Len(tipVisible) > 0 =>
        /\ UpdateCreates(children, nodes, links) = 0
        /\ UpdateRemoves(children, nodes, links) = 0

ElementsOf(cls, datum) ==
    {i \in DOMAIN children : children[i].cls = cls /\ children[i].d = datum}

\* C10: with distinct ids and distinct pairs, after every update and after
\* every tick there is exactly one node element per node of the collection
\* and one line element per link, and no other node or line element.
C10_OneElementPerDatum ==
    /\ \A i \in DOMAIN nodes : Cardinality(ElementsOf("node", nodes[i].id)) = 1
    /\ \A j \in DOMAIN links : Cardinality(ElementsOf("link", links[j])) = 1
    /\ Cardinality(SelectAll(children, "node")) = Len(nodes)
    /\ Cardinality({i \in DOMAIN children : children[i].cls \notin {"node"}})
           = Len(links)

\* C10 witness: three nodes and two links, drawn by a tick
C10_Witness ==
    /\ Len(nodes) = MaxNodes
    /\ Len(links) = SceneLinks
    /\ \A i \in DOMAIN children : children[i].t # <<>>

\* C11: after every addNode or addLink call (and in every state between
\* the calls), every line element precedes every node element among the
\* children of the main group.
C11_LinksBeforeNodes ==
    \A i \in DOMAIN children, j \in DOMAIN children :
        (children[i].cls = "link" /\ children[j].cls = "node") => i < j

\* C11 witness: a link was added after the nodes, which were drawn by a
\* tick before, and its line is the first child
C11_Witness ==
    /\ Len(nodes) >= 2
    /\ Len(links) >= 1
    /\ children[1].cls = "link"
    /\ children[1].t = <<>>
    /\ \E j \in DOMAIN children : children[j].cls = "node" /\ children[j].t # <<>>

\* C12: every link of the link collection has its source and its target
\* in the node collection.
C12_EndpointsPresent ==
    \A j \in DOMAIN links :
        links[j].source \in Ids(nodes) /\ links[j].target \in Ids(nodes)

\* some link has an endpoint without a position
EndpointUndefined(px, py) ==
    \E j \in DOMAIN links :
        \/ px[links[j].source] = Null \/ py[links[j].source] = Null
        \/ px[links[j].target] = Null \/ py[links[j].target] = Null

\* C13: the tick callback ends in assert.fail() exactly when some link has
\* an endpoint whose x or y is undefined at that tick; and it does not when
\* the endpoints of every link are in the node collection, as they are
\* when they were added before the link.
C13_TickThrowsIffUndefined ==
    [][SceneTick =>
          /\ thrown' <=> EndpointUndefined(x', y')
          /\ (\A j \in DOMAIN links :
                 links[j].source \in Ids(nodes) /\ links[j].target \in Ids(nodes))
             => ~thrown']_vars

\* C13 witness: the endpoints of the links are in the collection and a
\* tick drew every line without failing
C13_Witness ==
    /\ Len(links) = SceneLinks
    /\ ~thrown
    /\ ~EndpointUndefined(x, y)
    /\ \A i \in DOMAIN children :
          children[i].cls = "link" =>
              /\ children[i].t # <<>>
              /\ \A n \in 1 .. 4 : children[i].t[n] # Null

\* C14: after any sequence of zoom and pan gestures the scale of the one
\* transform of the main group, which holds every node and line element,
\* lies in [0.1, 4].
C14_ScaleWithinExtent ==
    /\ transform.k >= 10
    /\ transform.k <= 400

\* C14 witness: the scene was panned and zoomed in up to the limit
C14_Witness ==
    /\ transform.k = 400
    /\ transform.x # 0
    /\ Len(children) > 0

\* C15: a zoom or pan event leaves no tooltip showing.
C15_ZoomHidesTooltip ==
    [][transform' # transform => Visible' = {}]_vars

\* C16: a click on the background leaves no tooltip showing.
C16_BackgroundClickHides ==
    [][clicks' # clicks => Visible' = {}]_vars

\* the node lies strictly between the limits on an axis: r < pos < size - r
Interior(pos, size, r) ==
    /\ pos # Null
    /\ r < pos * 1000000
    /\ pos * 1000000 < size * 1000000 - r

\* C17: the boundary force leaves vx unchanged when r < x < width - r and
\* vy unchanged when r < y < height - r, with r = relSize * circleRadiusUnit,
\* for every alpha.
C17_BoundaryNoOpInside ==
    [][(\E a \in Alphas : ApplyBoundary(a)) =>
          LET r == bnode.relSize * config.circleRadiusUnit IN
          /\ Interior(bnode.x, width, r) => bnode'.vx = bnode.vx
          /\ Interior(bnode.y, height, r) => bnode'.vy = bnode.vy]_vars

\* C17 witness: the force pushed a node on the upper edge down and left
\* its horizontal velocity alone, the node being inside horizontally
C17_Witness ==
    /\ Interior(bnode.x, width, bnode.relSize * config.circleRadiusUnit)
    /\ bnode.vx = MaxVelocity
    /\ bnode.y = 0
    /\ bnode.vy # Null
    /\ bnode.vy > MaxVelocity

\* C18: there is exactly one pattern definition per node of the
\* collection, with the node's id, and none else; a pattern once created
\* stays as it is: no step removes it or creates it again.
C18_OnePatternPerNode ==
    /\ [](/\ Len(defs) = Len(nodes)
          /\ \A i \in DOMAIN nodes :
                Cardinality({p \in DOMAIN defs : defs[p].id = nodes[i].id}) = 1)
    /\ [][/\ Len(defs') >= Len(defs)
          /\ \A p \in DOMAIN defs : defs'[p] = defs[p]]_vars

\* C18 witness: a node entered, a link was added, the viewport changed
\* and the recomputation ran; the node's pattern is the one made for the
\* Config it entered with
C18_Witness ==
    /\ Len(nodes) > 0
    /\ Len(links) > 0
    /\ alpha = AlphaResize
    /\ lastResizeTimeout = NoTimer
    /\ Len(defs) = Len(nodes)
    /\ defs[1] # Pattern(nodes[1].id, config)

\* C19: a step that changes the node or the link collection appends
\* exactly one element to one of them and leaves the other alone, leaves
\* an element in the scene for every node and every link, and leaves the
\* simulation running with alpha 0.3.
C19_AddReheats ==
    [][(nodes' # nodes \/ links' # links) =>
          /\ \/ /\ Len(nodes') = Len(nodes) + 1
                /\ SubSeq(nodes', 1, Len(nodes)) = nodes
                /\ links' = links
             \/ /\ Len(links') = Len(links) + 1
                /\ SubSeq(links', 1, Len(links)) = links
                /\ nodes' = nodes
          /\ Cardinality(SelectAll(children', "node")) = Len(nodes')
          /\ Cardinality(SelectAll(children', "link")) = Len(links')
          /\ alpha' = 3
          /\ running']_vars

\* C19 witness: an element was added after ticks had drawn the scene: it
\* is not drawn yet, alpha is 0.3 and the simulation runs
C19_Witness ==
    /\ alpha = 3
    /\ running
    /\ \E i \in DOMAIN children : children[i].t # <<>>
    /\ \E i \in DOMAIN children : children[i].t = <<>>

\* C20: when no recomputation is pending, after a recomputation as after
\* construction, every force is the one the current Config and viewport
\* give: the rest length of each link is target.relDistance times
\* linkDistanceUnit, the charge strength is chargeStrength, the collision
\* radii are relSize times circleRadiusUnit plus 10, and the centering and
\* boundary forces have the size of the viewport.
C20_ForcesFollowConfig ==
    (lastResizeTimeout = NoTimer /\ ResizePending = 0) =>
        /\ DOMAIN force.link = DOMAIN links
        /\ \A j \in DOMAIN links :
              force.link[j] = Node(links[j].target).relDistance * config.linkDistanceUnit
        /\ force.charge = config.chargeStrength
        /\ DOMAIN force.collide = DOMAIN nodes
        /\ \A i \in DOMAIN nodes :
              force.collide[i] = nodes[i].relSize * config.circleRadiusUnit + 10 * 1000000
        /\ force.center = <<width, height>>
        /\ force.boundary = <<width, height>>

\* C21: after every resize recomputation every rendered node circle has
\* radius relSize * circleRadiusUnit of the Config the recomputation set,
\* and every pattern definition has x = y = -relSize * circleRadiusUnit and
\* width = height = 2 * relSize * circleRadiusUnit, for every node added
\* before the resize.
C21_GeometryFollowsConfig ==
    [][IsRecompute =>
          /\ \A i \in DOMAIN children' :
                children'[i].cls = "node" =>
                    children'[i].r = Node(children'[i].d).relSize * config'.circleRadiusUnit
          /\ \A p \in DOMAIN defs' :
                LET r == Node(defs'[p].id).relSize * config'.circleRadiusUnit IN
                /\ defs'[p].x = 0 - r
                /\ defs'[p].y = 0 - r
                /\ defs'[p].width = 2 * r
                /\ defs'[p].height = 2 * r]_vars

\* C22: when the resize timer fires, alpha is 1 and the simulation runs
\* afterwards, whether it had stopped, was cooling down or was held at the
\* alpha target 0.3 by a drag; and the handle of the pending timer is
\* none.
C22_ResizeReheats ==
    [][IsRecompute =>
          /\ alpha' = 10
          /\ running'
          /\ alphaTarget' = alphaTarget
          /\ lastResizeTimeout' = <<>>]_vars

\* C22 witness: the recomputation ran while a drag held the alpha target
\* at 0.3: alpha is 1, the simulation runs and no timer is pending
C22_Witness ==
    /\ Len(nodes) > 0
    /\ \E p \in Pointers : gestures[p] # 0
    /\ alphaTarget = AlphaDrag
    /\ alpha = AlphaResize
    /\ running
    /\ lastResizeTimeout = NoTimer

\* C23: if the viewport is resized finitely often, then from some time on
\* (500 ms after the last resize signal) and for ever the Config is the
\* one computed from the size the viewport has.
C23_ConfigFollowsViewport ==
    (<>[][~IsResize]_vars) =>
        <>[](/\ lastResizeTimeout = NoTimer
             /\ config.linkDistanceUnit = 300 * Min(width, height)
             /\ config.circleRadiusUnit = 80 * Min(width, height)
             /\ config.chargeStrength = 0 - 60 * Min(width, height))

\* C23 witness: a node entered, the viewport got another size, and after
\* the quiet period the Config is the one of the new size
C23_Witness ==
    /\ Len(defs) > 0
    /\ defs[1].width # 2 * Radius(defs[1].id, config)
    /\ ResizePending = 0
    /\ config = ComputeConfig(width, height)

\* C24: at any time at most one resize timer is pending: the one the
\* handle names, a signal having cleared the timer that was pending before
\* it armed the new one.
C24_OneResizeTimer ==
    /\ \A tm \in BagToSet(leaked) : tm[1] # ResizeTask
    /\ BagCardinality(leaked) + (IF lastResizeTimeout = NoTimer THEN 0 ELSE 1) <= 1

\* C24 witness: the viewport is not the one the Config was computed for,
\* and the one timer pending is the one the last signal armed
C24_Witness ==
    /\ lastResizeTimeout = Timer(ResizeTask, ResizeDelay)
    /\ leaked = EmptyBag
    /\ Len(nodes) > 0
    /\ alpha = AlphaResize
    /\ config # ComputeConfig(width, height)

\* C25: at any time at most one tooltip-hide timer is pending in the whole
\* visualizer, whichever nodes and tooltips the pointer left.
C25_OneHideTimer ==
    Cardinality({k \in DOMAIN showTimeout : showTimeout[k] # NoTimer})
        + BagCardinality(leaked) <= 1

\* a timer whose task hides the tooltip is pending
HidePending == \E src \in HideTimers : TimerAt(src)[1] > 0

\* the pointer is on a node with a description
OnDescribed(p) == p.at = "node" /\ HasDescription(p.i)

\* C26 (shared tooltip): a step that brings the pointer onto a node with a
\* description leaves no hide timer pending, also when the timer was armed
\* by leaving another node; and while the pointer stays on the node no step
\* but a zoom hides the tooltip.
C26_EnterCancelsHide ==
    [][/\ (ptr' # ptr /\ OnDescribed(ptr')) => ~HidePending'
       /\ (OnDescribed(ptr) /\ ptr' = ptr /\ transform' = transform /\ tipVisible[1])
              => tipVisible'[1]]_vars

\* C27 (shared tooltip): for a node of any addNode call, with any calls
\* after it, a step that brings the pointer onto the tooltip leaves no hide
\* timer pending; and while the pointer stays on the tooltip no step but a
\* zoom hides it.
C27_TipEntryCancelsHide ==
    [][/\ (ptr' # ptr /\ ptr' = OnTip(1)) => ~HidePending'
       /\ (ptr = OnTip(1) /\ ptr' = ptr /\ transform' = transform /\ tipVisible[1])
              => tipVisible'[1]]_vars

\* C28 (shared tooltip): whenever the tooltip shows what a click on a node
\* put in it and the pointer is neither on a node with a description nor on
\* the tooltip, a timer that hides the tooltip is pending and due at most
\* 800 ms later (time does not pass a timer that is due).
C28_TapHiddenAfterDelay ==
    (tipVisible[1] /\ tipData[1].event = "click" /\ ~OnDescribed(ptr) /\ ptr # OnTip(1)) =>
        \E src \in HideTimers :
            /\ TimerAt(src)[1] = 1
            /\ TimerAt(src)[2] \in 0 .. 800

\* C28 witness: the tooltip shows what a click put in it, the pointer is on
\* the background, and the one timer pending, which hides it, is due
C28_Witness ==
    /\ tipVisible[1]
    /\ tipData[1].event = "click"
    /\ ptr = Background
    /\ transform = ZoomIdentity
    /\ leaked = EmptyBag
    /\ \E k \in DOMAIN showTimeout :
          /\ showTimeout[k] = Timer(1, 0)
          /\ \A k2 \in DOMAIN showTimeout : k2 # k => showTimeout[k2] = NoTimer

\* the pointer is on a node without a description
OnBare(p) == p.at = "node" /\ Node(p.i).description = 0

\* C29: a step that brings the pointer onto a node without a description,
\* or takes it off one, shows no tooltip, changes no tooltip's data and
\* arms or clears no timer; and the data of every tooltip that has some is
\* a node with a description.
C29_OnlyDescribedNodes ==
    /\ [][(ptr' # ptr /\ (OnBare(ptr') \/ OnBare(ptr))) =>
             /\ tipVisible' = tipVisible
             /\ tipData' = tipData
             /\ showTimeout' = showTimeout
             /\ leaked' = leaked
             /\ hideTask' = hideTask]_vars
    /\ [](\A k \in DOMAIN tipData :
             tipData[k] # 0 => Node(tipData[k]).description > 0)

\* C29 witness: the pointer left a node with a description, whose tooltip
\* still shows with its timer running, and is on the root, which has none
C29_Witness ==
    /\ ptr = OnNode(1)
    /\ \E k \in DOMAIN tipVisible :
          /\ tipVisible[k]
          /\ tipData[k] > 1
          /\ showTimeout[k] # NoTimer
          /\ showTimeout[k][2] < HideDelay

\* C30: when no recomputation is pending, after construction as after a
\* recomputation, the radius the collision force uses for a node is
\* exactly relSize * circleRadiusUnit, the radius the boundary force uses.
C30_CollideRadiusIsDisc ==
    (lastResizeTimeout = NoTimer /\ ResizePending = 0) =>
        /\ DOMAIN force.collide = DOMAIN nodes
        /\ \A i \in DOMAIN nodes :
              force.collide[i] = nodes[i].relSize * config.circleRadiusUnit

\* a drag gesture is in progress
Dragging == \E p \in Pointers : gestures[p] # 0

\* C31: with any number of pointers dragging, the alpha target is 0.3
\* exactly while at least one drag is in progress, and 0 while none is.
C31_AlphaTargetWhileDragging ==
    alphaTarget = IF Dragging THEN AlphaDrag ELSE 0

\* C32: settling.  If from some point on no drag is in progress and no node
\* is added, the simulation eventually stops ticking, and alpha goes down
\* on every tick made while no drag is in progress; while a drag is in
\* progress the simulation never stops.
C32_SettlesUnlessDragged ==
    /\ (<>[](~Dragging) /\ <>[][~AddSomeNode(DragNodes)]_vars) => <>[](~running)
    /\ [][(IsTick /\ ~Dragging /\ ~Dragging') =>
            (alpha' <= alpha /\ (alpha >= 1 => alpha' < alpha))]_vars
    /\ [](Dragging => running)

\* the change the boundary force may make to the velocity v of a node at
\* pos, between the limits r and size - r, under alpha a: zero, or
\* (limit - coordinate) * 0.3 * alpha, not negative at the low limit and
\* not positive at the high limit
SoftInward(pos, v, v2, size, r, a) ==
    LET c == pos * 1000000
        hi == size * 1000000 - r
    IN  IF v = Null \/ pos = Null THEN v2 = v
        ELSE /\ v2 # Null
             /\ \/ v2 = v
                \/ c <= r /\ v2 - v = (r - c) * BoundaryStrength * a
                \/ c >= hi /\ v2 - v = (hi - c) * BoundaryStrength * a
             /\ c <= r => v2 - v >= 0
             /\ (c >= hi /\ c > r) => v2 - v <= 0

\* C33: the boundary force never writes x or y of a node; it changes vx and
\* vy only, and a change is (limit - coordinate) * 0.3 * alpha, which is
\* >= 0 at the low limit (x <= r, y <= r) and <= 0 at the high limit
\* (x >= width - r, y >= height - r).
C33_BoundarySoftInward ==
    [][\A a \in Alphas : ApplyBoundary(a) =>
          LET r == bnode.relSize * config.circleRadiusUnit IN
          /\ bnode'.x = bnode.x
          /\ bnode'.y = bnode.y
          /\ bnode'.relSize = bnode.relSize
          /\ SoftInward(bnode.x, bnode.vx, bnode'.vx, width, r, a)
          /\ SoftInward(bnode.y, bnode.vy, bnode'.vy, height, r, a)]_vars

\* C33 witness: the force pushed a node lying on the right edge of the
\* viewport, beyond the high limit, to the left and left it where it was
C33_Witness ==
    /\ width > 0
    /\ height > 0
    /\ bnode # NoNode
    /\ bnode.x = width
    /\ bnode.vx # Null
    /\ bnode.vx < 0

\* a 'start', 'drag' or 'end' event of the drag behaviour
IsDragEvent ==
    \/ \E p \in Pointers, id \in NodeIds : DragStarted(p, id)
    \/ \E p \in Pointers, ex \in Coord, ey \in Coord : Dragged(p, ex, ey)
    \/ \E p \in Pointers : DragEnded(p)

\* C34: only drag events change pins.  A step that changes fx or fy of a
\* node is a drag event; addNode, addLink, a resize, a resize
\* recomputation, a zoom event and every tooltip event leave the pins of
\* all nodes as they are, so a node being dragged stays pinned.
C34_OnlyDragChangesPins ==
    [][(fx' # fx \/ fy' # fy) => IsDragEvent]_vars

\* C34 witness: the node under the finger is still pinned where it was
\* dragged to, after the scene got a second node and a link, the viewport
\* collapsed and was recomputed, the scene was zoomed in and the tooltip of
\* the other node was shown
C34_Witness ==
    /\ gestures[1] = 1
    /\ fx[1] = MaxCoord
    /\ fy[1] = MaxCoord
    /\ Len(nodes) = 2
    /\ Len(links) = 1
    /\ width = 0
    /\ config = ComputeConfig(0, 0)
    /\ transform.k = ScaleMax
    /\ Visible # {}

\* the node element e draws, at the positions px, py, the node it had as
\* its datum in the children ch before the step
DrawsItsNode(e, ch, px, py) ==
    /\ \E i \in DOMAIN ch : ch[i].cls = "node" /\ ch[i].k = e.k /\ ch[i].d = e.d
    /\ e.t = <<px[e.d], py[e.d]>>

\* the lines that draw the link l at the positions px, py
LinesOf(ch, l, px, py) ==
    {i \in DOMAIN ch :
        /\ ch[i].cls = "link"
        /\ ch[i].d = l
        /\ ch[i].t = <<px[l.source], py[l.source], px[l.target], py[l.target]>>}

\* C35: after every tick, the translation of each node element is the
\* position (x, y) of the node it was created for, and each link of the
\* collection is drawn by exactly one line, from (source.x, source.y) to
\* (target.x, target.y), although the tick binds by index and update()
\* re-inserts the lines.
C35_DrawnWhereTheyAre ==
    [][SceneTick =>
          /\ \A i \in DOMAIN children' :
                children'[i].cls = "node" => DrawsItsNode(children'[i], children, x', y')
          /\ \A j \in DOMAIN links' :
                /\ Cardinality(LinesOf(children', links'[j], x', y')) = 1
                /\ Cardinality({i \in DOMAIN children' :
                                   children'[i].cls = "link"
                                   /\ children'[i].d = links'[j]}) = 1]_vars

\* the viewport has no area
Degenerate == width = 0 \/ height = 0

\* C36: degenerate viewport.  A Config computed for a viewport of width or
\* height 0 is all zeros (linkDistanceUnit = circleRadiusUnit =
\* chargeStrength = 0), and in such a viewport no tick ends in an error
\* (construction, addNode, addLink and the resize recomputation raise
\* none in any viewport).
C36_DegenerateViewport ==
    /\ []((Degenerate /\ ResizePending = 0) =>
             config = [linkDistanceUnit |-> 0, circleRadiusUnit |-> 0, chargeStrength |-> 0])
    /\ [][(IsTick /\ Degenerate) => ~thrown']_vars

\* the object item is the item of a Tree of the tree t
InTree(t, item) == item \in DOMAIN t

\* the tree t2 is t with one more Tree, a leaf pushed to the children of
\* the Tree of parent
Pushed(t, t2, parent) ==
    /\ Len(t2) = Len(t) + 1
    /\ t2[Len(t2)].children = <<>>
    /\ \A i \in DOMAIN t :
          /\ t2[i].item = t[i].item
          /\ t2[i].children = IF i = parent THEN Append(t[i].children, Len(t2))
                              ELSE t[i].children

\* C37: an item that addItem puts into the tree has relSize > 0,
\* relDistance > 0 and the depth of its parent plus 1, explicit relSize and
\* relDistance being positive; a call with a parent that is not in the tree
\* fails and leaves the tree as it is.
C37_AddItemKeepsTreeSound ==
    [][\A info \in Infos, parent \in Parents :
          addItem(info, parent) =>
              IF InTree(tree, parent)
              THEN /\ ~failed'
                   /\ Pushed(tree, tree', parent)
                   /\ tree'[Len(tree')].item.relSize > 0
                   /\ tree'[Len(tree')].item.relDistance > 0
                   /\ tree'[Len(tree')].item.depth = tree[parent].item.depth + 1
              ELSE failed' /\ tree' = tree]_vars

\* C37 witness: the tree is full, with an item at depth 3, an item that
\* took its sizes from a parent with the smallest explicit ones, and the
\* last call, with a parent that is not in the tree, failed
C37_Witness ==
    /\ failed
    /\ Len(tree) = MaxItems
    /\ \E i \in DOMAIN tree : tree[i].item.depth = 3
    /\ \E i \in DOMAIN tree, j \in DOMAIN tree :
          /\ tree[i].item.relSize = MaxOverride
          /\ tree[i].item.relDistance = MaxOverride
          /\ tree[i].item.depth = 1
          /\ j \in {tree[i].children[n] : n \in DOMAIN tree[i].children}
          /\ tree[j].item.relSize = Times(MaxOverride, ShrinkPercent)
          /\ tree[j].item.relDistance = Times(MaxOverride, DistancePercent)

====
